---- MODULE Spec2Model ----
(***************************************************************************)
(* Model of qtodotxt/lib/tasklib.py: the Task class (parsing of one        *)
(* todo.txt line, the four text-splicing mutators, the ordering) and       *)
(* filterTasks.                                                            *)
(*                                                                         *)
(* A Python str is a sequence of one-character strings; None, False and    *)
(* dates are encoded as tuples so that every field keeps one TLA+ type.    *)
(***************************************************************************)
EXTENDS Integers, Sequences, FiniteSets, TLC

(***************************************************************************)
(* Characters and strings                                                  *)
(***************************************************************************)
SP == " "

Digits == <<"0", "1", "2", "3", "4", "5", "6", "7", "8", "9">>

Uppers == <<"A", "B", "C", "D", "E", "F", "G">>

\* ord(): the ASCII code of the characters the model uses
Ord(c) ==
    CASE c = " " -> 32
      [] c = "(" -> 40
      [] c = ")" -> 41
      [] c = "+" -> 43
      [] c = "-" -> 45
      [] c \in {Digits[i] : i \in 1..10} -> 47 + (CHOOSE i \in 1..10 : Digits[i] = c)
      [] c = ":" -> 58
      [] c = "@" -> 64
      [] c \in {Uppers[i] : i \in 1..7} -> 64 + (CHOOSE i \in 1..7 : Uppers[i] = c)
      [] c = "c" -> 99
      [] c = "d" -> 100
      [] c = "e" -> 101
      [] c = "k" -> 107
      [] c = "p" -> 112
      [] c = "t" -> 116
      [] c = "u" -> 117
      [] c = "v" -> 118
      [] c = "w" -> 119
      [] c = "x" -> 120

\* chr(), on the codes that priority arithmetic can produce
Chr(n) ==
    CASE n = 64 -> "@"
      [] n \in 65..71 -> Uppers[n - 64]

IsDigit(c) == c \in {Digits[i] : i \in 1..10}

DigitVal(c) == Ord(c) - 48

\* [A-Z] of the priority pattern
IsUpper(c) == Ord(c) >= 65 /\ Ord(c) <= 90

\* s[n:] with n >= 0
Drop(s, n) == IF n >= Len(s) THEN <<>> ELSE SubSeq(s, n + 1, Len(s))

\* s[:n] with n >= 0
Take(s, n) == IF n >= Len(s) THEN s ELSE SubSeq(s, 1, n)

\* s.startswith(p)
StartsWith(s, p) == Len(s) >= Len(p) /\ SubSeq(s, 1, Len(p)) = p

\* Python's str < str: lexicographic by code point, a proper prefix is smaller
RECURSIVE StrLess(_, _)
StrLess(a, b) ==
    IF b = <<>> THEN FALSE
    ELSE IF a = <<>> THEN TRUE
    ELSE IF Ord(Head(a)) # Ord(Head(b)) THEN Ord(Head(a)) < Ord(Head(b))
    ELSE StrLess(Tail(a), Tail(b))

StrGreater(a, b) == StrLess(b, a)

StrGreaterEq(a, b) == ~StrLess(a, b)

\* index of the first occurrence of character c in s, 0 when absent
RECURSIVE FindChar(_, _, _)
FindChar(s, c, i) ==
    IF i > Len(s) THEN 0
    ELSE IF s[i] = c THEN i
    ELSE FindChar(s, c, i + 1)

\* str.split(' '): every single space separates, so the result is never empty
RECURSIVE Split(_)
Split(s) ==
    LET i == FindChar(s, SP, 1)
    IN  IF i = 0 THEN <<s>>
        ELSE <<Take(s, i - 1)>> \o Split(Drop(s, i))

\* " ".join(words)
RECURSIVE Join(_)
Join(ws) ==
    IF ws = <<>> THEN <<>>
    ELSE IF Len(ws) = 1 THEN ws[1]
    ELSE ws[1] \o <<SP>> \o Join(Tail(ws))

\* index of the first occurrence of the non-empty string old in s, 0 when absent
RECURSIVE FindStr(_, _, _)
FindStr(s, old, i) ==
    IF i + Len(old) - 1 > Len(s) THEN 0
    ELSE IF SubSeq(s, i, i + Len(old) - 1) = old THEN i
    ELSE FindStr(s, old, i + 1)

\* s.replace(old, new, 1) for a non-empty old
Replace1(s, old, new) ==
    LET i == FindStr(s, old, 1)
    IN  IF i = 0 THEN s
        ELSE Take(s, i - 1) \o new \o Drop(s, i + Len(old) - 1)

(***************************************************************************)
(* Dates                                                                   *)
(***************************************************************************)
\* None, and Some(v) for a value that may be None
None == <<>>

Some(v) == <<v>>

IsLeap(y) == (y % 4 = 0 /\ y % 100 # 0) \/ y % 400 = 0

DaysInMonth(y, m) ==
    IF m = 2 THEN (IF IsLeap(y) THEN 29 ELSE 28)
    ELSE IF m \in {4, 6, 9, 11} THEN 30
    ELSE 31

\* the value of a digit string matched by %m or %d, 0 when it does not match:
\* two digits or one digit 1-9 (the range is checked by the caller)
FieldVal(s) ==
    IF Len(s) = 1 /\ IsDigit(s[1]) /\ s[1] # "0" THEN DigitVal(s[1])
    ELSE IF Len(s) = 2 /\ IsDigit(s[1]) /\ IsDigit(s[2])
         THEN 10 * DigitVal(s[1]) + DigitVal(s[2])
    ELSE 0

\* datetime.strptime(string, '%Y-%m-%d').date(), None on ValueError:
\* four digits, '-', a month 1..12 of one or two digits, '-', a day of one or
\* two digits that exists in that month; nothing may remain
StrpDate(s) ==
    IF Len(s) < 8 \/ ~(\A i \in 1..4 : IsDigit(s[i])) \/ s[5] # "-" THEN None
    ELSE LET y == 1000 * DigitVal(s[1]) + 100 * DigitVal(s[2])
                  + 10 * DigitVal(s[3]) + DigitVal(s[4])
             rest == Drop(s, 5)
             j == FindChar(rest, "-", 1)
             m == IF j = 0 THEN 0 ELSE FieldVal(Take(rest, j - 1))
             d == IF j = 0 THEN 0 ELSE FieldVal(Drop(rest, j))
         IN  IF y >= 1 /\ m >= 1 /\ m <= 12 /\ d >= 1 /\ d <= DaysInMonth(y, m)
             THEN Some(<<y, m, d>>)
             ELSE None

\* Task._parseDate
_parseDate(s) == StrpDate(s)

Pad2(n) == <<Digits[(n \div 10) + 1], Digits[(n % 10) + 1]>>

\* date.strftime('%Y-%m-%d') for a four-digit year: zero-padded fields
Strftime(d) ==
    <<Digits[(d[1] \div 1000) + 1], Digits[((d[1] \div 100) % 10) + 1],
      Digits[((d[1] \div 10) % 10) + 1], Digits[(d[1] % 10) + 1]>>
    \o <<"-">> \o Pad2(d[2]) \o <<"-">> \o Pad2(d[3])

\* date <= date
DateLeq(a, b) ==
    \/ a[1] < b[1]
    \/ a[1] = b[1] /\ a[2] < b[2]
    \/ a[1] = b[1] /\ a[2] = b[2] /\ a[3] <= b[3]

(***************************************************************************)
(* Task                                                                    *)
(***************************************************************************)
\* self.is_future = False (a date, or None, once a t: word was parsed)
PyFalse == <<FALSE, FALSE>>

\* self._highest_priority
highest_priority == <<"A">>

\* "({}) ".format(p) without the trailing space
Paren(p) == <<"(">> \o p \o <<")">>

\* Task._reset: every field back to its default; the two priority bounds stay
_reset(lowest) ==
    [ contexts |-> <<>>,
      projects |-> <<>>,
      priority |-> <<>>,
      is_complete |-> FALSE,
      completion_date |-> None,
      is_future |-> PyFalse,
      text |-> <<>>,
      due |-> None,
      threshold |-> None,
      keywords |-> <<>>,
      lowest_priority |-> lowest ]

\* key, val = word.split(":", 1); self.keywords[key] = val
SetKeyword(kw, word) ==
    LET i == FindChar(word, ":", 1)
        key == Take(word, i - 1)
        val == Drop(word, i)
    IN  [k \in (DOMAIN kw) \cup {key} |-> IF k = key THEN val ELSE kw[k]]

\* the test of line 89 with < for <=: a threshold of today stays
FutureOf_keepToday(s, today) ==
    LET d == _parseDate(s)
    IN  IF d # None /\ DateLeq(d[1], today) /\ d[1] # today THEN None ELSE d

\* the is_future a t: word leaves: the parsed date, None when it does not
\* parse or is not after today
FutureOf(s, today) ==
    LET d == _parseDate(s)
    IN  IF d # None /\ DateLeq(d[1], today) THEN None ELSE d

\* Task._parseWord
_parseWord(t, word, today) ==
    IF Len(word) <= 1 THEN t
    ELSE IF word[1] = "@" THEN [t EXCEPT !.contexts = Append(@, Tail(word))]
    ELSE IF word[1] = "+" THEN [t EXCEPT !.projects = Append(@, Tail(word))]
    ELSE IF FindChar(word, ":", 1) # 0 THEN
        LET k == [t EXCEPT !.keywords = SetKeyword(@, word)]
        IN  IF StartsWith(word, <<"d", "u", "e", ":">>)
            THEN [k EXCEPT !.due = _parseDate(Drop(word, 4))]
            ELSE IF StartsWith(word, <<"t", ":">>)
            THEN [k EXCEPT !.threshold = Some(Drop(word, 2)),
                           !.is_future = FutureOf(Drop(word, 2), today)]
            ELSE k
    ELSE t

\* for word in words: self._parseWord(word)
RECURSIVE ParseWords(_, _, _)
ParseWords(t, words, today) ==
    IF words = <<>> THEN t
    ELSE ParseWords(_parseWord(t, Head(words), today), Tail(words), today)

\* re.search(r'^\([A-Z]\)$', word)
IsPriorityWord(word) ==
    Len(word) = 3 /\ word[1] = "(" /\ IsUpper(word[2]) /\ word[3] = ")"

\* ParseHead with "if" for the "elif" of line 68: a priority word is also
\* taken behind the completion marker and date
ParseHead_ifForElif(words) ==
    LET rest0 == IF words[1] # <<"x">> THEN words
                 ELSE IF Tail(words) = <<>> THEN <<>>
                 ELSE IF _parseDate(words[2]) # None THEN Drop(words, 2)
                 ELSE Drop(words, 1)
        prio == rest0 # <<>> /\ IsPriorityWord(rest0[1])
    IN  [is_complete |-> words[1] = <<"x">>,
         completion_date |-> IF words[1] = <<"x">> /\ Len(words) > 1
                             THEN _parseDate(words[2]) ELSE None,
         priority |-> IF prio THEN <<rest0[1][2]>> ELSE <<>>,
         rest |-> IF prio THEN Tail(rest0) ELSE rest0,
         raised |-> words = <<<<"x">>>>]

\* Task.parseLine, lines 59-70: what the leading words set, the words left
\* for _parseWord, and whether words[0] of an empty list raised IndexError
\* (the line "x")
ParseHead(words) ==
    IF words[1] = <<"x">> THEN
        IF Tail(words) = <<>> THEN
            [is_complete |-> TRUE, completion_date |-> None, priority |-> <<>>,
             rest |-> <<>>, raised |-> TRUE]
        ELSE LET d == _parseDate(words[2])
             IN  [is_complete |-> TRUE, completion_date |-> d, priority |-> <<>>,
                  rest |-> IF d # None THEN Drop(words, 2) ELSE Drop(words, 1),
                  raised |-> FALSE]
    ELSE IF IsPriorityWord(words[1]) THEN
        [is_complete |-> FALSE, completion_date |-> None,
         priority |-> <<words[1][2]>>, rest |-> Tail(words), raised |-> FALSE]
    ELSE
        [is_complete |-> FALSE, completion_date |-> None, priority |-> <<>>,
         rest |-> words, raised |-> FALSE]

\* parseLine without the call of _reset: the lists and the keywords of
\* the last parse stay
parseLine_noReset(t, line, today) ==
    LET h == ParseHead(Split(line))
        r == [t EXCEPT !.is_complete = h.is_complete,
                       !.completion_date = h.completion_date,
                       !.priority = h.priority,
                       !.text = <<>>]
    IN  IF h.raised THEN [task |-> r, raised |-> TRUE]
        ELSE [task |-> [ParseWords(r, h.rest, today) EXCEPT !.text = line],
              raised |-> FALSE]

\* Task.parseLine on the object t: the object it leaves and whether it raised.
\* When it raises, _reset and is_complete = True have taken effect and the
\* text is still empty.
parseLine(t, line, today) ==
    LET h == ParseHead(Split(line))
        r == [_reset(t.lowest_priority) EXCEPT
                 !.is_complete = h.is_complete,
                 !.completion_date = h.completion_date,
                 !.priority = h.priority]
    IN  IF h.raised THEN [task |-> r, raised |-> TRUE]
        ELSE [task |-> [ParseWords(r, h.rest, today) EXCEPT !.text = line],
              raised |-> FALSE]

\* Task.__init__: the attributes of lines 19-32, then parseLine(line)
NewTask(line, lowest, today) == parseLine(_reset(lowest), line, today)

\* Task.setCompleted
setCompleted(t, today) ==
    IF t.is_complete THEN t
    ELSE [t EXCEPT !.completion_date = Some(today),
                   !.text = <<"x", SP>> \o Strftime(today) \o <<SP>> \o t.text,
                   !.is_complete = TRUE]

\* setPending that drops the marker alone, also when a date follows it
setPending_oneWord(t) ==
    IF ~t.is_complete THEN [task |-> t, raised |-> FALSE]
    ELSE LET words == Split(t.text)
         IN  IF Len(words) < 2 THEN [task |-> t, raised |-> TRUE]
             ELSE [task |-> [t EXCEPT !.text = Join(Drop(words, 1)),
                                      !.is_complete = FALSE,
                                      !.completion_date = None],
                   raised |-> FALSE]

\* setPending without line 123: the completion date stays
setPending_keepDate(t) ==
    IF ~t.is_complete THEN [task |-> t, raised |-> FALSE]
    ELSE LET words == Split(t.text)
         IN  IF Len(words) < 2 THEN [task |-> t, raised |-> TRUE]
             ELSE LET d == _parseDate(words[2])
                      txt == IF d # None THEN Join(Drop(words, 2))
                             ELSE Join(Drop(words, 1))
                  IN  [task |-> [t EXCEPT !.text = txt,
                                          !.is_complete = FALSE],
                       raised |-> FALSE]

\* setPending reading words[2] where line 117 reads words[1]
setPending_thirdWord(t) ==
    IF ~t.is_complete THEN [task |-> t, raised |-> FALSE]
    ELSE LET words == Split(t.text)
         IN  IF Len(words) < 3 THEN [task |-> t, raised |-> TRUE]
             ELSE LET d == _parseDate(words[3])
                      txt == IF d # None THEN Join(Drop(words, 2))
                             ELSE Join(Drop(words, 1))
                  IN  [task |-> [t EXCEPT !.text = txt,
                                          !.is_complete = FALSE,
                                          !.completion_date = None],
                       raised |-> FALSE]

\* Task.setPending: words[1] raises IndexError when the text has no space
setPending(t) ==
    IF ~t.is_complete THEN [task |-> t, raised |-> FALSE]
    ELSE LET words == Split(t.text)
         IN  IF Len(words) < 2 THEN [task |-> t, raised |-> TRUE]
             ELSE LET d == _parseDate(words[2])
                      txt == IF d # None THEN Join(Drop(words, 2))
                             ELSE Join(Drop(words, 1))
                  IN  [task |-> [t EXCEPT !.text = txt,
                                          !.is_complete = FALSE,
                                          !.completion_date = None],
                       raised |-> FALSE]

\* increasePriority without the test of line 138 against the highest
\* priority
increasePriority_noTop(t) ==
    IF t.is_complete THEN t
    ELSE IF t.priority = <<>> THEN
        [t EXCEPT !.priority = t.lowest_priority,
                  !.text = Paren(t.lowest_priority) \o <<SP>> \o t.text]
    ELSE
        LET p == <<Chr(Ord(t.priority[1]) - 1)>>
        IN  [t EXCEPT !.priority = p,
                      !.text = Paren(p) \o <<SP>> \o Drop(t.text, 4)]

\* increasePriority that starts again from the lowest priority at the
\* highest, where lines 138-140 do nothing
increasePriority_wrap(t) ==
    IF t.is_complete THEN t
    ELSE IF t.priority = <<>> THEN
        [t EXCEPT !.priority = t.lowest_priority,
                  !.text = Paren(t.lowest_priority) \o <<SP>> \o t.text]
    ELSE IF t.priority # highest_priority THEN
        LET p == <<Chr(Ord(t.priority[1]) - 1)>>
        IN  [t EXCEPT !.priority = p,
                      !.text = Paren(p) \o <<SP>> \o Drop(t.text, 4)]
    ELSE [t EXCEPT !.priority = t.lowest_priority,
                   !.text = Paren(t.lowest_priority) \o <<SP>> \o Drop(t.text, 4)]

\* increasePriority with the format "({}){}" on lines 137 and 140
increasePriority_noSpace(t) ==
    IF t.is_complete THEN t
    ELSE IF t.priority = <<>> THEN
        [t EXCEPT !.priority = t.lowest_priority,
                  !.text = Paren(t.lowest_priority) \o t.text]
    ELSE IF t.priority # highest_priority THEN
        LET p == <<Chr(Ord(t.priority[1]) - 1)>>
        IN  [t EXCEPT !.priority = p,
                      !.text = Paren(p) \o Drop(t.text, 4)]
    ELSE t

\* increasePriority with text[3:] for the text[4:] of line 140
increasePriority_sliceThree(t) ==
    IF t.is_complete THEN t
    ELSE IF t.priority = <<>> THEN
        [t EXCEPT !.priority = t.lowest_priority,
                  !.text = Paren(t.lowest_priority) \o <<SP>> \o t.text]
    ELSE IF t.priority # highest_priority THEN
        LET p == <<Chr(Ord(t.priority[1]) - 1)>>
        IN  [t EXCEPT !.priority = p,
                      !.text = Paren(p) \o <<SP>> \o Drop(t.text, 3)]
    ELSE t

\* Task.increasePriority
increasePriority(t) ==
    IF t.is_complete THEN t
    ELSE IF t.priority = <<>> THEN
        [t EXCEPT !.priority = t.lowest_priority,
                  !.text = Paren(t.lowest_priority) \o <<SP>> \o t.text]
    ELSE IF t.priority # highest_priority THEN
        LET p == <<Chr(Ord(t.priority[1]) - 1)>>
        IN  [t EXCEPT !.priority = p,
                      !.text = Paren(p) \o <<SP>> \o Drop(t.text, 4)]
    ELSE t

\* decreasePriority with "not self.priority or" before the test of line
\* 145: a task with no priority is taken for one at the lowest priority
decreasePriority_emptyIsLowest(t) ==
    IF t.is_complete THEN t
    ELSE IF t.priority = <<>> \/ StrGreaterEq(t.priority, t.lowest_priority) THEN
        [t EXCEPT !.priority = <<>>,
                  !.text = Replace1(Drop(t.text, 4), Paren(<<>>), <<>>)]
    ELSE
        LET p == <<Chr(Ord(t.priority[1]) + 1)>>
        IN  [t EXCEPT !.priority = p,
                      !.text = Replace1(t.text, Paren(t.priority), Paren(p))]

\* decreasePriority without the assignment to self.text of line 152
decreasePriority_keepText(t) ==
    IF t.is_complete THEN t
    ELSE IF StrGreaterEq(t.priority, t.lowest_priority) THEN
        [t EXCEPT !.priority = <<>>,
                  !.text = Replace1(Drop(t.text, 4), Paren(<<>>), <<>>)]
    ELSE IF t.priority # <<>> THEN
        [t EXCEPT !.priority = <<Chr(Ord(t.priority[1]) + 1)>>]
    ELSE t

\* Task.decreasePriority
decreasePriority(t) ==
    IF t.is_complete THEN t
    ELSE IF StrGreaterEq(t.priority, t.lowest_priority) THEN
        [t EXCEPT !.priority = <<>>,
                  !.text = Replace1(Drop(t.text, 4), Paren(<<>>), <<>>)]
    ELSE IF t.priority # <<>> THEN
        LET p == <<Chr(Ord(t.priority[1]) + 1)>>
        IN  [t EXCEPT !.priority = p,
                      !.text = Replace1(t.text, Paren(t.priority), Paren(p))]
    ELSE t

\* Task.__eq__
TaskEq(a, b) == a.text = b.text

\* Task._lowerCompleteness: "raise" stands for the RuntimeError
_lowerCompleteness(a, b) ==
    IF a.is_complete /\ ~b.is_complete THEN "True"
    ELSE IF ~a.is_complete /\ b.is_complete THEN "False"
    ELSE "raise"

\* __lt__ without the test of line 158: the tie-break is always entered
Lt_tieBreakAlways(a, b) == _lowerCompleteness(a, b)

\* __lt__ with >= for the > of line 167
Lt_textGe(a, b) ==
    IF a.is_complete # b.is_complete THEN _lowerCompleteness(a, b)
    ELSE IF a.priority # b.priority THEN
        IF a.priority = <<>> THEN "True"
        ELSE IF b.priority = <<>> THEN "False"
        ELSE IF StrGreater(a.priority, b.priority) THEN "True" ELSE "False"
    ELSE IF StrGreaterEq(a.text, b.text) THEN "True" ELSE "False"

\* __lt__ with the results of lines 162 and 164 exchanged
Lt_noPriorityLast(a, b) ==
    IF a.is_complete # b.is_complete THEN _lowerCompleteness(a, b)
    ELSE IF a.priority # b.priority THEN
        IF a.priority = <<>> THEN "False"
        ELSE IF b.priority = <<>> THEN "True"
        ELSE IF StrGreater(a.priority, b.priority) THEN "True" ELSE "False"
    ELSE IF StrGreater(a.text, b.text) THEN "True" ELSE "False"

\* Task.__lt__: "True", "False" or "raise"
Lt(a, b) ==
    IF a.is_complete # b.is_complete THEN _lowerCompleteness(a, b)
    ELSE IF a.priority # b.priority THEN
        IF a.priority = <<>> THEN "True"
        ELSE IF b.priority = <<>> THEN "False"
        ELSE IF StrGreater(a.priority, b.priority) THEN "True" ELSE "False"
    ELSE IF StrGreater(a.text, b.text) THEN "True" ELSE "False"

(***************************************************************************)
(* filterTasks                                                             *)
(***************************************************************************)
\* A filter is None or Some(S): an object whose isMatch(task) is true exactly
\* for the tasks in the set S.
isMatch(f, t) == t \in f[1]

\* lines 183-186 without the break: every matching filter appends the task
FilterLoop_noBreak(fs, t, acc) ==
    acc \o [i \in 1..Cardinality({j \in 1..Len(fs) : isMatch(fs[j], t)}) |-> t]

\* lines 183-186: the filters in turn, the task appended at the first match
RECURSIVE FilterLoop(_, _, _)
FilterLoop(fs, t, acc) ==
    IF fs = <<>> THEN acc
    ELSE IF isMatch(Head(fs), t) THEN Append(acc, t)
    ELSE FilterLoop(Tail(fs), t, acc)

\* lines 181-187: the tasks in turn
RECURSIVE TaskLoop(_, _, _)
TaskLoop(fs, ts, acc) ==
    IF ts = <<>> THEN acc
    ELSE TaskLoop(fs, Tail(ts), FilterLoop(fs, Head(ts), acc))

\* filterTasks(filters, tasks)
filterTasks(fs, ts) ==
    IF \E i \in 1..Len(fs) : fs[i] = None THEN ts
    ELSE TaskLoop(fs, ts, <<>>)

(***************************************************************************)
(* Inputs                                                                  *)
(***************************************************************************)
\* the largest number of words after the leading marker words of a line
MaxBody == 1

X == <<"x">>

DateWord == <<"2", "0", "2", "4", "-", "0", "3", "-", "0", "1">>

PrioB == <<"(", "B", ")">>

PrioE == <<"(", "E", ")">>

\* the leading words of a line: nothing, a completion marker with or without
\* a date, a priority, and a priority or a second marker behind the marker
Prefixes ==
    { <<>>, <<X>>, <<X, DateWord>>, <<PrioB>>, <<PrioE>>, <<X, PrioB>>,
      <<X, DateWord, PrioB>>, <<X, X>> }

\* the other words: empty (two spaces in a row), context, project, due date
\* (not zero-padded), threshold date, malformed threshold, and an empty pair
\* of parentheses
BodyWords ==
    { <<>>, <<"@", "c">>, <<"+", "p">>,
      <<"d", "u", "e", ":", "2", "0", "2", "4", "-", "3", "-", "1">>,
      <<"t", ":", "2", "0", "2", "4", "-", "0", "3", "-", "0", "5">>,
      <<"t", ":", "w">>,
      <<"(", ")">> }

Bodies == UNION { [1..n -> BodyWords] : n \in 0..MaxBody }

\* the lines given to Task(line)
Lines == { Join(p \o b) : p \in Prefixes, b \in Bodies }

\* the lines given to parseLine(line) on an object that exists, besides its
\* own text
ReLines == { Join(p) : p \in Prefixes }

\* the values of date.today() during a run
Days == { <<2024, 3, 4>>, <<2024, 3, 5>> }

\* the values of the "lowest_priority" setting
Lowests == { <<"B">>, <<"D">> }

(***************************************************************************)
(* State                                                                   *)
(***************************************************************************)
VARIABLES
    task,     \* the Task object: its attributes
    raised,   \* whether the last call on it raised
    parsed,   \* whether the last parseLine on it returned
    today,    \* date.today()
    line0,    \* history: the line last parsed
    hist,     \* history: what was called since (see Track)
    tasks,    \* a list of Task objects (ordering, filterTasks)
    filters,  \* the last filters argument of filterTasks
    result    \* what that call returned

vars == <<task, raised, parsed, today, line0, hist, tasks, filters, result>>

Mutators == {"setCompleted", "setPending", "increasePriority", "decreasePriority"}

\* hist is <<>> after Task(line), <<"parseLine">> after parseLine(line), and
\* then the first and the second mutator call; after a third call only the
\* name of the last call is kept, and line0 is forgotten
Track(op) ==
    IF hist \in {<<>>, <<"parseLine">>}
    THEN hist' = <<op>> /\ line0' = line0
    ELSE IF Len(hist) = 1
    THEN hist' = Append(hist, op) /\ line0' = line0
    ELSE hist' = <<"*", "*", op>> /\ line0' = <<>>

(***************************************************************************)
(* One Task object                                                         *)
(***************************************************************************)
Init ==
    /\ today \in Days
    /\ \E line \in Lines, lowest \in Lowests :
          /\ ~NewTask(line, lowest, today).raised
          /\ task = NewTask(line, lowest, today).task
          /\ line0 = line
    /\ raised = FALSE
    /\ parsed = TRUE
    /\ hist = <<>>
    /\ tasks = <<>>
    /\ filters = <<>>
    /\ result = <<>>

\* the object's own text is parsed again while the line it came from is one
\* of Lines (texts would otherwise grow without bound)
OwnText == IF line0 \in Lines /\ Len(hist) <= 2 THEN {task.text} ELSE {}

ParseLine ==
    /\ \E line \in ReLines \cup OwnText :
          /\ task' = parseLine(task, line, today).task
          /\ raised' = parseLine(task, line, today).raised
          /\ parsed' = ~parseLine(task, line, today).raised
          /\ line0' = line
    /\ hist' = <<"parseLine">>
    /\ UNCHANGED <<today, tasks, filters, result>>

SetCompleted ==
    /\ task' = setCompleted(task, today)
    /\ raised' = FALSE
    /\ Track("setCompleted")
    /\ UNCHANGED <<parsed, today, tasks, filters, result>>

SetPending ==
    /\ task' = setPending(task).task
    /\ raised' = setPending(task).raised
    /\ Track("setPending")
    /\ UNCHANGED <<parsed, today, tasks, filters, result>>

IncreasePriority ==
    /\ task' = increasePriority(task)
    /\ raised' = FALSE
    /\ Track("increasePriority")
    /\ UNCHANGED <<parsed, today, tasks, filters, result>>

DecreasePriority ==
    /\ task' = decreasePriority(task)
    /\ raised' = FALSE
    /\ Track("decreasePriority")
    /\ UNCHANGED <<parsed, today, tasks, filters, result>>

\* midnight passes
Tick ==
    /\ \E d \in Days : d # today /\ DateLeq(today, d) /\ today' = d
    /\ UNCHANGED <<task, raised, parsed, line0, hist, tasks, filters, result>>

Next ==
    \/ ParseLine
    \/ SetCompleted
    \/ SetPending
    \/ IncreasePriority
    \/ DecreasePriority
    \/ Tick

Spec == Init /\ [][Next]_vars

(***************************************************************************)
(* Properties of one Task object                                           *)
(***************************************************************************)
\* the fields a parse of the text must reproduce
SameFields(a, b) ==
    /\ a.is_complete = b.is_complete
    /\ a.completion_date = b.completion_date
    /\ a.priority = b.priority
    /\ a.contexts = b.contexts
    /\ a.projects = b.projects
    /\ a.keywords = b.keywords
    /\ a.due = b.due
    /\ a.threshold = b.threshold

\* C1: after a parse that returned and any mutator calls, parsing the
\* current text again yields exactly the current is_complete,
\* completion_date, priority, contexts, projects, keywords, due and threshold
C1_RoundTrip ==
    parsed =>
        /\ ~parseLine(task, task.text, today).raised
        /\ SameFields(parseLine(task, task.text, today).task, task)

\* the first word of the line last parsed
FirstWord == Split(line0)[1]

\* C2: a task parsed from a line whose first word is not "x" has, after
\* setCompleted() and then setPending(), the line as its text again, is not
\* complete and has no completion date
C2_CompleteThenPending ==
    (parsed /\ hist = <<"setCompleted", "setPending">> /\ FirstWord # <<"x">>) =>
        /\ ~raised
        /\ task.text = line0
        /\ ~task.is_complete
        /\ task.completion_date = None

\* C2 witness: the two calls were made on a line with a priority and the
\* text is the line again
C2_Witness ==
    /\ parsed /\ hist = <<"setCompleted", "setPending">>
    /\ FirstWord = PrioB
    /\ Len(line0) > 3
    /\ task.text = line0

\* C3: parseLine returns for every line, it never raises
C3_ParseTotal == ~(raised /\ hist = <<"parseLine">>)

\* C4 as stated: a completion date is set if and only if the task is complete
C4_DateIffComplete == parsed => (task.completion_date # None <=> task.is_complete)

\* C4: a completion date is set only if the task is complete
C4_DateOnlyIfComplete == task.completion_date # None => task.is_complete

\* C4 witness: setCompleted has set the date of today on a task that had none
C4_Witness ==
    /\ hist = <<"setCompleted">>
    /\ task.is_complete
    /\ task.completion_date = Some(today)
    /\ FirstWord # <<"x">>

\* the priority is a letter from highest_priority to lowest_priority
InRange(t) ==
    /\ Len(t.priority) = 1
    /\ StrGreaterEq(t.priority, highest_priority)
    /\ StrGreaterEq(t.lowest_priority, t.priority)

\* C5 as stated: the priority is absent or a letter from 'A' to the
\* lowest priority of the task
C5_PriorityInRange == parsed => (task.priority = <<>> \/ InRange(task))

\* the priority is absent or one upper-case letter
PriorityIsLetter(t) ==
    t.priority = <<>> \/ (Len(t.priority) = 1 /\ IsUpper(t.priority[1]))

\* a call of one of the four mutators
MutatorStep == SetCompleted \/ SetPending \/ IncreasePriority \/ DecreasePriority

\* C5: the priority is absent or one upper-case letter (parseLine takes any
\* letter), and no mutator takes a priority that is absent or within
\* 'A'..lowest_priority to a letter outside 'A'..lowest_priority
C5_PriorityLetter ==
    /\ []PriorityIsLetter(task)
    /\ [][((task.priority = <<>> \/ InRange(task))
             /\ ~(task'.priority = <<>> \/ InRange(task')))
            => ~MutatorStep]_vars

\* C5 witness: a line with priority E, below the lowest priority D, was
\* parsed and increasePriority has made it D
C5_Witness ==
    /\ hist = <<"increasePriority">>
    /\ FirstWord = PrioE
    /\ task.lowest_priority = <<"D">>
    /\ task.priority = <<"D">>

\* C9: a line whose first word is "x" parses to a complete task with no
\* priority, whatever follows the marker or the date
C9_CompletionBeforePriority ==
    (parsed /\ hist \in {<<>>, <<"parseLine">>} /\ FirstWord = <<"x">>) =>
        (task.is_complete /\ task.priority = <<>>)

\* C9 witness: "x 2024-03-01 (B)" and "x (B)" were parsed
C9_Witness ==
    /\ parsed /\ hist \in {<<>>, <<"parseLine">>}
    /\ Take(Split(line0), 3) = <<X, DateWord, PrioB>>
    /\ task.is_complete
    /\ task.completion_date = Some(<<2024, 3, 1>>)
    /\ task.priority = <<>>

\* the step leaves what Task(line0') gives, text and fields and IndexError,
\* and changes nothing when line0' is the text of a task just parsed
FreshAfter ==
    /\ raised' = NewTask(line0', task.lowest_priority, today).raised
    /\ task' = NewTask(line0', task.lowest_priority, today).task
    /\ ~raised' => task'.text = line0'
    /\ (line0' = task.text
          /\ task = NewTask(task.text, task.lowest_priority, today).task)
        => task' = task

\* C10: parseLine(L) on an object in any state leaves the text L and every
\* field as Task(L) has it, and raises when Task(L) does; on the text of a
\* task just parsed it changes nothing (stated as: a step that does not
\* leave this is no ParseLine step)
C10_ParseRetainsNothing ==
    [][(hist' = <<"parseLine">> /\ ~FreshAfter) => ~ParseLine]_vars

\* C10 witness: "(B)" was completed, which left the priority B, and the text
\* it then had was parsed again, which left no priority
C10_Witness ==
    /\ hist = <<"parseLine">>
    /\ line0 \notin Lines
    /\ Take(line0, 2) = <<"x", SP>>
    /\ Drop(line0, 13) = PrioB
    /\ task.text = line0
    /\ task.is_complete
    /\ task.priority = <<>>

\* the last call made on the object
LastCall == IF hist = <<>> THEN "Task" ELSE hist[Len(hist)]

\* C11: a mutator whose precondition fails changes nothing and does not
\* raise: setCompleted on a complete task, setPending on a pending task,
\* increasePriority on a complete task or at the highest priority, and
\* decreasePriority on a task with no priority leave the text and every field
\* as they were
C11_FailedPreconditionNoOp ==
    [][/\ (task.is_complete /\ SetCompleted) => (task' = task /\ ~raised')
       /\ (~task.is_complete /\ SetPending) => (task' = task /\ ~raised')
       /\ ((task.is_complete \/ task.priority = highest_priority)
             /\ IncreasePriority) => (task' = task /\ ~raised')
       /\ (task.priority = <<>> /\ DecreasePriority)
            => (task' = task /\ ~raised')]_vars

\* C11 witness: decreasePriority was called on a pending task with no
\* priority and a text of more than four characters, which is still the line
C11_Witness ==
    /\ hist = <<"decreasePriority">>
    /\ ~task.is_complete
    /\ task.priority = <<>>
    /\ Len(line0) > 4
    /\ task.text = line0

\* the letter one position before c, and one position after c
LetterBefore(c) == Uppers[(CHOOSE i \in 2..Len(Uppers) : Uppers[i] = c) - 1]

LetterAfter(c) == Uppers[(CHOOSE i \in 1..(Len(Uppers) - 1) : Uppers[i] = c) + 1]

\* increasePriority as the claim defines it, on a pending task
IncreaseAsDefined ==
    IF task.priority = <<>> THEN
        /\ task'.priority = task.lowest_priority
        /\ task'.text = <<"(", task.lowest_priority[1], ")", " ">> \o task.text
    ELSE IF task.priority # <<"A">> THEN
        /\ task'.priority = <<LetterBefore(task.priority[1])>>
        /\ Take(task'.text, 4) = <<"(", LetterBefore(task.priority[1]), ")", " ">>
        /\ Drop(task'.text, 4) = Drop(task.text, 4)
    ELSE TRUE

\* C12: increasePriority on a pending task with no priority sets the lowest
\* priority and puts "(<lowest>) " before the text; with a priority other
\* than the highest it moves the letter one position up and replaces exactly
\* the first four characters of the text by the new "(X) "
C12_IncreasePriority ==
    [][(LastCall' = "increasePriority" /\ ~task.is_complete /\ IncreasePriority)
        => IncreaseAsDefined]_vars

\* C12 witness: "(B) ..." was raised to "(A) ..." with the rest of the line
\* unchanged
C12_Witness ==
    /\ hist = <<"increasePriority">>
    /\ FirstWord = PrioB
    /\ Len(line0) > 4
    /\ task.priority = <<"A">>
    /\ task.text = <<"(", "A", ")", " ">> \o Drop(line0, 4)

\* C13: decreasePriority on a pending task whose priority is at or below the
\* lowest priority clears the priority, and the new text is the old text
\* without its first four characters, whatever the remaining text is
C13_DecreaseAtLowest ==
    [][(/\ LastCall' = "decreasePriority"
        /\ ~task.is_complete
        /\ task.priority # <<>>
        /\ StrGreaterEq(task.priority, task.lowest_priority)
        /\ DecreasePriority)
        => (task'.priority = <<>> /\ task'.text = Drop(task.text, 4))]_vars

\* decreasePriority as the claim defines it for a priority before the lowest
DecreaseAsDefined ==
    /\ task'.priority = <<LetterAfter(task.priority[1])>>
    /\ task'.text = <<"(", LetterAfter(task.priority[1]), ")">> \o Drop(task.text, 3)

NoFutureThreshold(t, d) ==
    \/ t.threshold = None
    \/ _parseDate(t.threshold[1]) = None
    \/ DateLeq(_parseDate(t.threshold[1])[1], d)

\* C16 as stated: after parseLine, a task with no t: word, with a malformed
\* t: value or with a t: date on or before today has is_future None
C16_FutureNullUnlessLater ==
    [][(hist' = <<"parseLine">> /\ NoFutureThreshold(task', today')
        /\ task'.is_future # None) => ~ParseLine]_vars

\* is_future as parsing on day d leaves it: False with no t: word, None with
\* a t: value that is no date or a date not after d, and otherwise the date
\* of the last t: value
FutureAsParsed(t, d) ==
    IF t.threshold = None THEN t.is_future = PyFalse
    ELSE IF NoFutureThreshold(t, d) THEN t.is_future = None
    ELSE t.is_future = _parseDate(t.threshold[1])

\* C16: in the state construction or parseLine leaves, is_future is a date
\* only if the last t: value parses as a date strictly after today, and it is
\* then that date; it is None when the last t: value is malformed or a date
\* on or before today, and False, not None, when the line has no t: word
C16_FutureAsParsed ==
    /\ FutureAsParsed(task, today)
    /\ [][(hist' = <<"parseLine">> /\ ~FutureAsParsed(task', today'))
            => ~ParseLine]_vars

\* C16 witness: a task built with "t:2024-03-05" the day before was parsed
\* again from its own text on 2024-03-05, and is_future went back to None
C16_Witness ==
    /\ hist = <<"parseLine">>
    /\ parsed
    /\ today = <<2024, 3, 5>>
    /\ task.threshold = Some(<<"2", "0", "2", "4", "-", "0", "3", "-", "0", "5">>)
    /\ task.is_future = None

\* C17: after a successful construction or parse, no sequence of
\* setCompleted, setPending, increasePriority and decreasePriority raises:
\* the text of a complete task has at least two words when setPending reads
\* the second, and the priority is empty or one character when ord() is
\* applied to it
C17_MutatorsNeverRaise ==
    parsed =>
        /\ ~raised
        /\ ~setPending(task).raised
        /\ task.is_complete => Len(Split(task.text)) >= 2
        /\ Len(task.priority) <= 1

\* C17 witness: a task parsed from the two words "x <word>" was set pending
\* without an error, its text now the one word
C17_Witness ==
    /\ hist = <<"setPending">>
    /\ parsed
    /\ ~raised
    /\ FirstWord = X
    /\ Len(Split(line0)) = 2
    /\ ~task.is_complete
    /\ task.text = Split(line0)[2]

\* C18: a pending task with the priority P has a text that begins with
\* "(P)" and is either those three characters or has a space as its fourth
C18_PriorityPrefix ==
    (~task.is_complete /\ task.priority # <<>>) =>
        /\ Len(task.priority) = 1
        /\ Take(task.text, 3) = <<"(", task.priority[1], ")">>
        /\ Len(task.text) = 3 \/ task.text[4] = " "

\* C18 witness: after three or more mutator calls, the last one
\* increasePriority, the pending task has priority A and the text "(A) "
C18_Witness ==
    /\ hist = <<"*", "*", "increasePriority">>
    /\ ~task.is_complete
    /\ task.priority = <<"A">>
    /\ task.text = <<"(", "A", ")", " ">>

(***************************************************************************)
(* One priority mutator called again and again on one Task object          *)
(***************************************************************************)
\* increasePriority, no other call having been made since the last parse
RepeatIncrease ==
    /\ LastCall \in {"Task", "increasePriority"}
    /\ IncreasePriority

\* decreasePriority, no other call having been made since the last parse
RepeatDecrease ==
    /\ LastCall \in {"Task", "decreasePriority"}
    /\ DecreasePriority

NextRepeat == RepeatIncrease \/ RepeatDecrease

\* the caller goes on calling the mutator it has chosen
SpecRepeat ==
    Init /\ [][NextRepeat]_vars /\ WF_vars(RepeatIncrease) /\ WF_vars(RepeatDecrease)

\* repeated increasePriority has reached A, repeated decreasePriority has
\* reached no priority
Converged ==
    \/ LastCall = "increasePriority" /\ task.priority = <<"A">>
    \/ LastCall = "decreasePriority" /\ task.priority = <<>>

\* C19: on a pending task, increasePriority called again and again reaches
\* the priority A and decreasePriority called again and again reaches no
\* priority, and every later call of the same mutator changes nothing
C19_RepeatConverges ==
    /\ <>[](task.is_complete \/ Converged)
    /\ [][(~task.is_complete /\ Converged) => task' = task]_vars

\* C19 witness: three or more calls of increasePriority and nothing else
\* have taken a pending task with lowest priority D to the priority A
C19_Witness ==
    /\ hist = <<"*", "*", "increasePriority">>
    /\ ~task.is_complete
    /\ task.lowest_priority = <<"D">>
    /\ task.priority = <<"A">>

(***************************************************************************)
(* A list of three Task objects: ordering                                  *)
(***************************************************************************)
\* the lines of the tasks that are compared
OrderLines == { <<"v">>, <<"w">>, <<"x", SP, "w">>, <<"(", "B", ")", SP, "w">> }

InitOrder ==
    /\ today = <<2024, 3, 4>>
    /\ tasks \in [1..3 -> { NewTask(l, <<"D">>, today).task : l \in OrderLines }]
    /\ task = _reset(<<"D">>)
    /\ raised = FALSE
    /\ parsed = TRUE
    /\ line0 = <<>>
    /\ hist = <<>>
    /\ filters = <<>>
    /\ result = <<>>

ListParseLine(i) ==
    /\ \E line \in OrderLines :
          tasks' = [tasks EXCEPT ![i] = parseLine(@, line, today).task]
    /\ UNCHANGED <<task, raised, parsed, today, line0, hist, filters, result>>

ListSetCompleted(i) ==
    /\ tasks' = [tasks EXCEPT ![i] = setCompleted(@, today)]
    /\ UNCHANGED <<task, raised, parsed, today, line0, hist, filters, result>>

ListSetPending(i) ==
    /\ tasks' = [tasks EXCEPT ![i] = setPending(@).task]
    /\ UNCHANGED <<task, raised, parsed, today, line0, hist, filters, result>>

ListIncreasePriority(i) ==
    /\ tasks' = [tasks EXCEPT ![i] = increasePriority(@)]
    /\ UNCHANGED <<task, raised, parsed, today, line0, hist, filters, result>>

ListDecreasePriority(i) ==
    /\ tasks' = [tasks EXCEPT ![i] = decreasePriority(@)]
    /\ UNCHANGED <<task, raised, parsed, today, line0, hist, filters, result>>

NextOrder ==
    \E i \in 1..3 :
        \/ ListParseLine(i)
        \/ ListSetCompleted(i)
        \/ ListSetPending(i)
        \/ ListIncreasePriority(i)
        \/ ListDecreasePriority(i)

SpecOrder == InitOrder /\ [][NextOrder]_vars

\* C6 as stated: of two tasks of equal completeness, one with no priority is
\* never less than one with a priority
C6_NoPriorityNeverLess ==
    \A i, j \in DOMAIN tasks :
        (/\ tasks[i].is_complete = tasks[j].is_complete
         /\ tasks[i].priority = <<>>
         /\ tasks[j].priority # <<>>)
        => Lt(tasks[i], tasks[j]) # "True"

\* C6: of two tasks of equal completeness, one with no priority is always
\* less than one with a priority, and the one with a priority is never less
\* than the one with none
C6_NoPriorityLess ==
    \A i, j \in DOMAIN tasks :
        (/\ tasks[i].is_complete = tasks[j].is_complete
         /\ tasks[i].priority = <<>>
         /\ tasks[j].priority # <<>>)
        => (Lt(tasks[i], tasks[j]) = "True" /\ Lt(tasks[j], tasks[i]) = "False")

\* C6 witness: two pending tasks, one with no priority and one that
\* increasePriority gave the priority A
C6_Witness ==
    /\ tasks # <<>>
    /\ ~tasks[1].is_complete /\ tasks[1].priority = <<>>
    /\ ~tasks[2].is_complete /\ tasks[2].priority = <<"A">>
    /\ tasks[2].text = <<"(", "A", ")", SP, "v">>

\* neither task is less than the other
Tied(a, b) == Lt(a, b) = "False" /\ Lt(b, a) = "False"

\* C7: __lt__ is a strict weak order on the tasks: never less than itself,
\* never less both ways, transitive, and being tied is transitive
C7_StrictWeakOrder ==
    \A i, j, k \in DOMAIN tasks :
        LET a == tasks[i]
            b == tasks[j]
            c == tasks[k]
        IN  /\ Lt(a, a) = "False"
            /\ Lt(a, b) \in {"True", "False"}
            /\ Lt(a, b) = "True" => Lt(b, a) = "False"
            /\ (Lt(a, b) = "True" /\ Lt(b, c) = "True") => Lt(a, c) = "True"
            /\ (Tied(a, b) /\ Tied(b, c)) => Tied(a, c)

\* C7 witness: three tasks in a chain, the first two completed by
\* setCompleted and apart by their priority, the last two with the priority
\* B and apart by their completeness, and two tasks tied
C7_Witness ==
    /\ tasks # <<>>
    /\ Lt(tasks[1], tasks[2]) = "True"
    /\ Lt(tasks[2], tasks[3]) = "True"
    /\ tasks[1].is_complete /\ tasks[1].completion_date # None
    /\ tasks[2].is_complete
    /\ tasks[1].priority # tasks[2].priority
    /\ tasks[2].priority = <<"B">>
    /\ tasks[3].priority = <<"B">>
    /\ ~tasks[3].is_complete

\* C15: comparing two tasks of the list never raises: the completeness
\* tie-break is entered only for tasks of different completeness, where it
\* answers True or False
C15_CompareNeverRaises ==
    \A i, j \in DOMAIN tasks :
        /\ Lt(tasks[i], tasks[j]) \in {"True", "False"}
        /\ tasks[i].is_complete # tasks[j].is_complete
             => Lt(tasks[i], tasks[j]) = _lowerCompleteness(tasks[i], tasks[j])

\* C15 witness: the list holds a task completed by setCompleted, a complete
\* task and a pending one; the tie-break decides the comparisons with the
\* pending task, and the two complete tasks are compared without it
C15_Witness ==
    /\ tasks # <<>>
    /\ tasks[1].is_complete /\ tasks[1].completion_date # None
    /\ tasks[2].is_complete
    /\ ~tasks[3].is_complete
    /\ _lowerCompleteness(tasks[1], tasks[3]) = "True"
    /\ _lowerCompleteness(tasks[3], tasks[1]) = "False"
    /\ _lowerCompleteness(tasks[1], tasks[2]) = "raise"
    /\ Lt(tasks[1], tasks[2]) = "False"
    /\ Lt(tasks[2], tasks[2]) = "False"

(***************************************************************************)
(* filterTasks on a list of Task objects                                   *)
(***************************************************************************)
\* the longest list of tasks
MaxTasks == 3

\* the longest list of filters
MaxFilters == 2

\* the tasks of the lists
FilterTaskSet ==
    { NewTask(l, <<"D">>, <<2024, 3, 4>>).task :
        l \in { <<"x", SP, "w">>, <<"(", "B", ")", SP, "w">> } }

\* the filters: None, and one filter for every set of tasks it can match
FilterSet == {None} \cup { Some(S) : S \in SUBSET FilterTaskSet }

InitFilter ==
    /\ today = <<2024, 3, 4>>
    /\ tasks \in UNION { [1..n -> FilterTaskSet] : n \in 0..MaxTasks }
    /\ task = _reset(<<"D">>)
    /\ raised = FALSE
    /\ parsed = TRUE
    /\ line0 = <<>>
    /\ hist = <<>>
    /\ filters = <<>>
    /\ result = <<>>

FilterTasks ==
    /\ \E fs \in UNION { [1..n -> FilterSet] : n \in 0..MaxFilters } :
          /\ filters' = fs
          /\ result' = filterTasks(fs, tasks)
    /\ hist' = <<"filterTasks">>
    /\ UNCHANGED <<task, raised, parsed, today, line0, tasks>>

NextFilter == FilterTasks

SpecFilter == InitFilter /\ [][NextFilter]_vars

\* some filter of fs matches t
AnyMatch(fs, t) == \E i \in 1..Len(fs) : isMatch(fs[i], t)

\* C8: filterTasks returns the tasks unchanged when a filter is None;
\* otherwise the tasks that some filter matches, in their order and once for
\* every time they are in the list; with no filter it returns no task
C8_FilterTasks ==
    hist = <<"filterTasks">> =>
        /\ (\E i \in 1..Len(filters) : filters[i] = None) => result = tasks
        /\ (\A i \in 1..Len(filters) : filters[i] # None) =>
              result = SelectSeq(tasks, LAMBDA t : AnyMatch(filters, t))
        /\ filters = <<>> => result = <<>>

\* C8 witness: two filters that both match a task that is in the list twice,
\* and a task that no filter matches
C8_Witness ==
    /\ hist = <<"filterTasks">>
    /\ Len(filters) = 2 /\ filters[1] # None /\ filters[2] # None
    /\ Len(tasks) = 3
    /\ tasks[1] = tasks[3] /\ tasks[2] # tasks[1]
    /\ isMatch(filters[1], tasks[1]) /\ isMatch(filters[2], tasks[1])
    /\ ~AnyMatch(filters, tasks[2])
    /\ result = <<tasks[1], tasks[3]>>

====
